---- MODULE Spec2Model ----
(***************************************************************************)
(* Model of the amazedb group engine (src/amazedb/group.py): the filter    *)
(* matcher matchDocs, the sorter merge / merge_sort, the searcher          *)
(* binary_search, the queries get_one / get and the mutations insert,      *)
(* insert_many, update_one, update, remove_one, remove of class group.     *)
(*                                                                         *)
(* A document is a function from a subset of Fields to integers.  The      *)
(* group file is modelled by the document sequence it decrypts and parses  *)
(* to (disk); documents have string keys and integer values, on which      *)
(* json.dumps followed by json.loads yields an equal document.             *)
(* Python results are records [st, ...]: st is "ok" for a returned value,  *)
(* "False" / "None" for the two not-found values, or the name of the       *)
(* exception that was raised.                                              *)
(* Every call runs to completion in one step (the engine is synchronous);  *)
(* its arguments and outcome stay in `last` until the caller takes them.   *)
(*                                                                         *)
(* Spec is one group object on its own file; SpecShared adds other         *)
(* writers of the same file and a change of the database key, the token    *)
(* in the file being modelled by the key it was encrypted with (fileKey):  *)
(* Fernet decrypts it under that key only and raises InvalidToken under    *)
(* any other.  SpecDb is the registry of groups of one database object     *)
(* (src/amazedb/dbms.py: createGroup, getGroup) with group.drop.           *)
(* SpecMatch and SpecSort call matchDocs, merge_sort and binary_search     *)
(* directly on every bounded input.                                        *)
(* SpecRace and SpecCrash follow insert one file access at a time (load,   *)
(* truncate, write): two callers whose steps interleave, and one caller    *)
(* whose process can stop between steps.                                   *)
(***************************************************************************)
EXTENDS Integers, Sequences, FiniteSets, TLC

\* ---- bounds -------------------------------------------------------------
\* largest number of documents the group file holds
MaxDocs == 3
\* document values and filter operands range over 0..MaxVal
MaxVal == 1
\* largest number of items in an operator dict passed to matchDocs
MaxOps == 2

Fields == {"a", "b"}
Values == 0 .. MaxVal

\* the values stored under a field: "a" is the field documents are told
\* apart and ordered by, "b" a second field that is present or absent
FieldValues(f) == IF f = "a" THEN Values ELSE {0}

\* every document over Fields (the empty document included)
Documents ==
    UNION {{d \in [S -> Values] : \A f \in S : d[f] \in FieldValues(f)} : S \in SUBSET Fields}

\* ---- list helpers (Python list semantics) -------------------------------
\* arr[lo:] of Python for a 0-based lo, on a 1-based sequence
SliceFrom(s, lo) == SubSeq(s, lo + 1, Len(s))

\* x in list
InList(x, s) == \E i \in 1 .. Len(s) : s[i] = x

\* list.remove(x): delete the first element equal to x (caller checks InList)
ListRemove(s, x) ==
    LET i == CHOOSE k \in 1 .. Len(s) : s[k] = x /\ \A j \in 1 .. (k - 1) : s[j] # x
    IN  SubSeq(s, 1, i - 1) \o SubSeq(s, i + 1, Len(s))

\* dict.copy() followed by dict.update(nValues)
DictUpdate(doc, nValues) ==
    [f \in (DOMAIN doc) \cup (DOMAIN nValues) |->
        IF f \in DOMAIN nValues THEN nValues[f] ELSE doc[f]]

\* ---- Sorter -------------------------------------------------------------
RECURSIVE MergeLoop_lt(_, _, _, _, _, _)
\* the loop of merge comparing with < instead of <=: on a tie the element of
\* the right half goes first
MergeLoop_lt(left, right, param, result, il, ir) ==
    IF ~(Len(result) < Len(left) + Len(right))
    THEN [st |-> "ok", val |-> result]
    ELSE IF param \notin DOMAIN left[il + 1] \/ param \notin DOMAIN right[ir + 1]
    THEN [st |-> "ValueError", val |-> <<>>]
    ELSE LET takeLeft == left[il + 1][param] < right[ir + 1][param]
             res1 == IF takeLeft THEN Append(result, left[il + 1])
                                 ELSE Append(result, right[ir + 1])
             il1  == IF takeLeft THEN il + 1 ELSE il
             ir1  == IF takeLeft THEN ir ELSE ir + 1
         IN  IF ir1 = Len(right)
             THEN [st |-> "ok", val |-> res1 \o SliceFrom(left, il1)]
             ELSE IF il1 = Len(left)
             THEN [st |-> "ok", val |-> res1 \o SliceFrom(right, ir1)]
             ELSE MergeLoop_lt(left, right, param, res1, il1, ir1)

RECURSIVE MergeLoop(_, _, _, _, _, _)
\* the while loop of merge: one iteration per call
MergeLoop(left, right, param, result, il, ir) ==
    IF ~(Len(result) < Len(left) + Len(right))
    THEN [st |-> "ok", val |-> result]
    ELSE IF param \notin DOMAIN left[il + 1] \/ param \notin DOMAIN right[ir + 1]
    THEN [st |-> "ValueError", val |-> <<>>]
    ELSE LET takeLeft == left[il + 1][param] <= right[ir + 1][param]
             res1 == IF takeLeft THEN Append(result, left[il + 1])
                                 ELSE Append(result, right[ir + 1])
             il1  == IF takeLeft THEN il + 1 ELSE il
             ir1  == IF takeLeft THEN ir ELSE ir + 1
         IN  IF ir1 = Len(right)
             THEN [st |-> "ok", val |-> res1 \o SliceFrom(left, il1)]
             ELSE IF il1 = Len(left)
             THEN [st |-> "ok", val |-> res1 \o SliceFrom(right, ir1)]
             ELSE MergeLoop(left, right, param, res1, il1, ir1)

merge(left, right, param) ==
    IF Len(left) = 0 THEN [st |-> "ok", val |-> right]
    ELSE IF Len(right) = 0 THEN [st |-> "ok", val |-> left]
    ELSE MergeLoop(left, right, param, <<>>, 0, 0)

RECURSIVE merge_sort(_, _)
merge_sort(array, param) ==
    IF Len(array) < 2
    THEN [st |-> "ok", val |-> array]
    ELSE LET midpoint == Len(array) \div 2
             l == merge_sort(SubSeq(array, 1, midpoint), param)
             r == merge_sort(SliceFrom(array, midpoint), param)
         IN  IF l.st # "ok" THEN l
             ELSE IF r.st # "ok" THEN r
             ELSE merge(l.val, r.val, param)

\* ---- Searcher -----------------------------------------------------------
RECURSIVE BinaryLoop(_, _, _, _, _)
\* the while loop of binary_search: one iteration per call
BinaryLoop(arr, key, value, l, u) ==
    IF ~(l < u)
    THEN [st |-> "False", val |-> <<>>]
    ELSE LET mid == (l + u) \div 2
         IN  IF key \notin DOMAIN arr[mid + 1]
             THEN [st |-> "KeyError", val |-> <<>>]
             ELSE IF arr[mid + 1][key] = value
             THEN [st |-> "ok", val |-> arr[mid + 1]]
             ELSE IF arr[mid + 1][key] < value
             THEN BinaryLoop(arr, key, value, mid + 1, u)
             ELSE BinaryLoop(arr, key, value, l, mid)

binary_search(arr, key, value) == BinaryLoop(arr, key, value, 0, Len(arr) - 1)

\* ---- FilterMatcher ------------------------------------------------------
\* A filter value is [isDict, v, items]: a plain value v (isDict = FALSE)
\* or a dict whose items, in iteration order, are [tag, arg, obj]: arg is the
\* integer operand of a comparison tag, obj names the pattern of "__re" or
\* the callable of "__cf".
Plain(v) == [isDict |-> FALSE, v |-> v, items |-> <<>>]
Ops(items) == [isDict |-> TRUE, v |-> 0, items |-> items]
Item(tag, arg) == [tag |-> tag, arg |-> arg, obj |-> ""]
ObjItem(tag, obj) == [tag |-> tag, arg |-> 0, obj |-> obj]

\* re.match(pattern, str(doc)) for the patterns used as operands:
\* "ok" with the match result, or "error" when re.match raises
ReMatch(pattern, doc) ==
    CASE pattern = "^1$"  -> [st |-> "ok", hit |-> (doc = 1)]
      [] pattern = "^0"   -> [st |-> "ok", hit |-> (doc = 0)]
      [] OTHER            -> [st |-> "error", hit |-> FALSE]

\* filters[i](doc) for the callables used as operands: "positive" is
\* lambda v: v > 0, any other operand raises when called
CallFilter(fn, doc) ==
    CASE fn = "positive" -> [st |-> "ok", hit |-> (doc > 0)]
      [] OTHER           -> [st |-> "error", hit |-> FALSE]

RECURSIVE MatchLoop(_, _, _)
\* the for loop of matchDocs over filters.keys(), from item i on
MatchLoop(doc, items, i) ==
    IF i > Len(items) THEN "True"
    ELSE LET t == items[i].tag
             a == items[i].arg
             next == MatchLoop(doc, items, i + 1)
         IN  CASE t = "__ne"  -> IF doc = a THEN "False" ELSE next
               [] t = "__gt"  -> IF doc <= a THEN "False" ELSE next
               [] t = "__lt"  -> IF doc >= a THEN "False" ELSE next
               [] t = "__lte" -> IF doc > a THEN "False" ELSE next
               [] t = "__gte" -> IF doc < a THEN "False" ELSE next
               [] t = "__re"  ->
                    LET m == ReMatch(items[i].obj, doc)
                    IN  IF m.st # "ok" THEN "InvalidRegExpError"
                        ELSE IF ~m.hit THEN "False" ELSE next
               [] t = "__cf"  ->
                    LET c == CallFilter(items[i].obj, doc)
                    IN  IF c.st # "ok" THEN "InvalidFilterError"
                        ELSE IF ~c.hit THEN "False" ELSE next
               [] OTHER       -> "InvalidFilterError"

\* matchDocs with "return True" indented into the loop: only the first
\* operator of the dict is checked
matchDocs_first(doc, filters) ==
    IF filters.isDict
    THEN IF Len(filters.items) = 0 THEN "True"
         ELSE MatchLoop(doc, <<filters.items[1]>>, 1)
    ELSE IF filters.v = doc THEN "True" ELSE "False"

\* matchDocs(doc, filters): "True", "False" or the exception raised
matchDocs(doc, filters) ==
    IF filters.isDict
    THEN MatchLoop(doc, filters.items, 1)
    ELSE IF filters.v = doc THEN "True" ELSE "False"

\* ---- QueryPlanner -------------------------------------------------------
\* A filters dict is the sequence of its [field, spec] entries in iteration
\* order (field names pairwise distinct).
RECURSIVE FilterLoop(_, _, _)
\* the inner loop "for j in filters" of get_one / get on document i:
\* "True" (matches stays True), "False", or the exception that escapes
FilterLoop(i, filters, j) ==
    IF j > Len(filters) THEN "True"
    ELSE IF filters[j].field \notin DOMAIN i THEN "False"
    ELSE LET m == matchDocs(i[filters[j].field], filters[j].spec)
         IN  IF m = "True" THEN FilterLoop(i, filters, j + 1) ELSE m

RECURSIVE ScanOne(_, _, _)
\* the linear scan of get_one from document k on: first match or None
ScanOne(docs, filters, k) ==
    IF k > Len(docs) THEN [st |-> "None", val |-> <<>>]
    ELSE LET m == FilterLoop(docs[k], filters, 1)
         IN  IF m = "True" THEN [st |-> "ok", val |-> docs[k]]
             ELSE IF m = "False" THEN ScanOne(docs, filters, k + 1)
             ELSE [st |-> m, val |-> <<>>]

\* sortby is "" when the caller passes none
\* get_one whose linear scan starts at the second document
get_one_second(docs, filters, sortby) ==
    IF Len(filters) = 1 /\ sortby = "" /\ ~filters[1].spec.isDict
    THEN LET key == filters[1].field
             value == filters[1].spec.v
             sorted == merge_sort(docs, key)
         IN  IF sorted.st # "ok" THEN sorted
             ELSE binary_search(sorted.val, key, value)
    ELSE LET sorted == IF sortby # "" THEN merge_sort(docs, sortby)
                                      ELSE [st |-> "ok", val |-> docs]
         IN  IF sorted.st # "ok" THEN sorted
             ELSE ScanOne(sorted.val, filters, 2)

get_one(docs, filters, sortby) ==
    IF Len(filters) = 1 /\ sortby = "" /\ ~filters[1].spec.isDict
    THEN LET key == filters[1].field
             value == filters[1].spec.v
             sorted == merge_sort(docs, key)
         IN  IF sorted.st # "ok" THEN sorted
             ELSE binary_search(sorted.val, key, value)
    ELSE LET sorted == IF sortby # "" THEN merge_sort(docs, sortby)
                                      ELSE [st |-> "ok", val |-> docs]
         IN  IF sorted.st # "ok" THEN sorted
             ELSE ScanOne(sorted.val, filters, 1)

RECURSIVE ScanAll(_, _, _, _)
\* the linear scan of get from document k on, collecting into output
ScanAll(docs, filters, k, output) ==
    IF k > Len(docs) THEN [st |-> "ok", val |-> output]
    ELSE LET m == FilterLoop(docs[k], filters, 1)
         IN  IF m = "True" THEN ScanAll(docs, filters, k + 1, Append(output, docs[k]))
             ELSE IF m = "False" THEN ScanAll(docs, filters, k + 1, output)
             ELSE [st |-> m, val |-> <<>>]

\* get that sorts the whole list before it filters
get_sortfirst(docs, filters, sortby) ==
    LET sorted == IF sortby # "" THEN merge_sort(docs, sortby)
                                 ELSE [st |-> "ok", val |-> docs]
    IN  IF sorted.st # "ok" THEN sorted
        ELSE ScanAll(sorted.val, filters, 1, <<>>)

get(docs, filters, sortby) ==
    LET output == ScanAll(docs, filters, 1, <<>>)
    IN  IF output.st # "ok" THEN output
        ELSE IF sortby # "" THEN merge_sort(output.val, sortby)
        ELSE output

\* ---- group: state -------------------------------------------------------
VARIABLES
    disk,      \* the document list the group file decrypts and parses to
    data,      \* self.data, the in-memory copy (meaningful when preLoad)
    preLoad,   \* self.preLoad
    last,      \* the call that just completed, its arguments and its outcome,
               \* until the caller has taken the result
    mIn,       \* the arguments [doc, filters] of a direct matchDocs call
    mOut,      \* its outcome, "pending" until the call is made
    pIn,       \* the arguments [fn, arr, key, value] of a direct call of
               \* merge_sort or binary_search
    pOut,      \* its outcome [st, val], st = "pending" until the call is made
    selfKey,   \* self.key, copied from the database when the group was opened
    fileKey,   \* the key the token in the group file was encrypted with
    groups,    \* db.groups, the list of group names the database object holds
    dbKey,     \* db.key, "None" until the metadata is loaded
    files,     \* the names n for which the file n.group exists
    meta,      \* the "groups" list in metadata.json
    held,      \* the names the caller holds a group object of
    dLast,     \* the last call on the database or on a held group object
    blob,      \* what the group file holds: "token" (the token of disk),
               \* "empty" (truncated, nothing written yet) or "garbled" (a
               \* token followed by the rest of a longer one)
    pc,        \* where each caller of a step-by-step insert stands
    local      \* each such caller's list d: the loaded list with its
               \* document appended

vars == <<disk, data, preLoad, last, mIn, mOut, pIn, pOut, selfKey, fileKey,
          groups, dbKey, files, meta, held, dLast, blob, pc, local>>
mvars == <<mIn, mOut>>
pvars == <<pIn, pOut>>
gvars == <<disk, data, preLoad, last>>
\* what no call on the group touches
kvars == <<selfKey, fileKey>>
dvars == <<groups, dbKey, files, meta, held, dLast>>
rvars == <<blob, pc, local>>
xvars == <<mvars, pvars, kvars, dvars, rvars>>

\* the callers whose inserts are followed step by step
Callers == {"c1", "c2"}

\* no step-by-step insert is under way and the file holds the token of disk
RaceQuiet ==
    /\ blob = "token"
    /\ pc = [c \in Callers |-> "idle"]
    /\ local = [c \in Callers |-> <<>>]

\* the record of a call on the database object or on a group object
DbCall(op, name, safeMode, st) == [op |-> op, name |-> name, safeMode |-> safeMode, st |-> st]

\* the database holds the one group the group calls are made on
DbQuiet ==
    /\ groups = <<"g1">>
    /\ dbKey = "k1"
    /\ files = {"g1"}
    /\ meta = <<"g1">>
    /\ held = {"g1"}
    /\ dLast = DbCall("getGroup", "g1", TRUE, "ok")

\* the record of a completed call; unused parts keep their empty value
Call(op, filters, sortby, arg, batch, st, ret, n) ==
    [op |-> op, filters |-> filters, sortby |-> sortby, arg |-> arg,
     batch |-> batch, st |-> st, ret |-> ret, n |-> n]

\* no call has completed that the caller has not taken the result of
Idle == Call("idle", <<>>, "", <<>>, <<>>, "ok", <<>>, 0)

\* ---- inputs the calls are made with -------------------------------------
Eq(f, v) == [field |-> f, spec |-> Plain(v)]
Op(f, items) == [field |-> f, spec |-> Ops(items)]

\* single plain-equality filters: the shape that takes the fast path
EqFilters == {<<Eq(f, v)>> : f \in Fields, v \in Values}

\* the filters dicts passed to queries and mutations
FilterSet ==
    EqFilters
    \cup {<<>>}
    \cup {<<Eq("a", MaxVal), Eq("b", 0)>>,
          <<Op("a", <<Item("__gt", 0)>>)>>,
          <<Op("a", <<Item("__zz", 0)>>)>>}

\* the nValues dicts passed to update_one / update
NValueSet == {d \in Documents : Cardinality(DOMAIN d) = 1 /\ \A f \in DOMAIN d : d[f] = 0}

\* the argument tuples passed to insert_many
BatchSet == {<<>>} \cup {<<d, e>> : d \in {[f \in {"a"} |-> MaxVal]}, e \in NValueSet \cup {<<>>}}

SortBySet == {""} \cup Fields

\* the list a query reads: self.data when preLoad, the file otherwise
Docs == IF preLoad THEN data ELSE disk

Init ==
    /\ preLoad \in BOOLEAN
    /\ disk = <<>>
    /\ data = <<>>
    /\ last = Idle
    /\ mIn = [doc |-> 0, filters |-> Plain(0)]
    /\ mOut = "idle"
    /\ pIn = [fn |-> "", arr |-> <<>>, key |-> "", value |-> 0]
    /\ pOut = [st |-> "idle", val |-> <<>>]
    /\ selfKey = "k1"
    /\ fileKey = "k1"
    /\ DbQuiet
    /\ RaceQuiet

\* ---- group: queries -----------------------------------------------------
\* get_one whose fast path sorts self.data in place, keeping the sorted order
GetOne_persist(filters, sortby) ==
    LET r == IF ~preLoad /\ selfKey # fileKey THEN [st |-> "InvalidToken", val |-> <<>>]
             ELSE get_one(Docs, filters, sortby)
        fast == Len(filters) = 1 /\ sortby = "" /\ ~filters[1].spec.isDict
        sorted == IF fast THEN merge_sort(Docs, filters[1].field)
                          ELSE [st |-> "ok", val |-> Docs]
    IN  /\ last = Idle
        /\ last' = Call("get_one", filters, sortby, <<>>, <<>>, r.st,
                        IF r.st = "ok" THEN <<r.val>> ELSE <<>>, 0)
        /\ data' = IF preLoad /\ sorted.st = "ok" THEN sorted.val ELSE data
        /\ UNCHANGED <<disk, preLoad, xvars>>

GetOne(filters, sortby) ==
    LET r == IF ~preLoad /\ selfKey # fileKey THEN [st |-> "InvalidToken", val |-> <<>>]
             ELSE get_one(Docs, filters, sortby)
    IN  /\ last = Idle
        /\ last' = Call("get_one", filters, sortby, <<>>, <<>>, r.st,
                        IF r.st = "ok" THEN <<r.val>> ELSE <<>>, 0)
        /\ UNCHANGED <<disk, data, preLoad, xvars>>

Get(filters, sortby) ==
    LET r == IF ~preLoad /\ selfKey # fileKey THEN [st |-> "InvalidToken", val |-> <<>>]
             ELSE get(Docs, filters, sortby)
    IN  /\ last = Idle
        /\ last' = Call("get", filters, sortby, <<>>, <<>>, r.st, r.val, 0)
        /\ UNCHANGED <<disk, data, preLoad, xvars>>

\* ---- group: mutations ---------------------------------------------------
Insert(d) ==
    /\ last = Idle
    /\ Len(disk) < MaxDocs /\ Len(data) < MaxDocs
    /\ data' = IF preLoad THEN Append(data, d) ELSE data
    /\ disk' = IF selfKey = fileKey THEN Append(disk, d) ELSE disk
    /\ last' = Call("insert", <<>>, "", d, <<>>,
                    IF selfKey = fileKey THEN "ok" ELSE "InvalidToken", <<>>, 0)
    /\ UNCHANGED <<preLoad, xvars>>

\* insert_many that adds the batch last document first
InsertMany_reversed(batch) ==
    LET rev == [k \in 1 .. Len(batch) |-> batch[Len(batch) + 1 - k]]
    IN  /\ last = Idle
        /\ Len(disk) + Len(batch) <= MaxDocs
        /\ data' = IF preLoad THEN data \o rev ELSE data
        /\ disk' = disk \o rev
        /\ last' = Call("insert_many", <<>>, "", <<>>, batch, "ok", <<>>, 0)
        /\ UNCHANGED <<preLoad, xvars>>

InsertMany(batch) ==
    /\ last = Idle
    /\ Len(disk) + Len(batch) <= MaxDocs /\ Len(data) + Len(batch) <= MaxDocs
    /\ data' = IF preLoad THEN data \o batch ELSE data
    /\ disk' = IF selfKey = fileKey THEN disk \o batch ELSE disk
    /\ last' = Call("insert_many", <<>>, "", <<>>, batch,
                    IF selfKey = fileKey THEN "ok" ELSE "InvalidToken", <<>>, 0)
    /\ UNCHANGED <<preLoad, xvars>>

RECURSIVE RemoveEach(_, _, _)
\* [s.remove(i) for i in xs] from the k-th element of xs on: the list left,
\* or ValueError as soon as an element is not in the list
RemoveEach(s, xs, k) ==
    IF k > Len(xs) THEN [st |-> "ok", val |-> s]
    ELSE IF ~InList(xs[k], s) THEN [st |-> "ValueError", val |-> s]
    ELSE RemoveEach(ListRemove(s, xs[k]), xs, k + 1)

\* [i.copy() for i in doc] followed by [i.update(nValues) for i in nDoc]
UpdateEach(xs, nValues) == [k \in 1 .. Len(xs) |-> DictUpdate(xs[k], nValues)]

\* The outcome of a mutation is [st, data, disk, n]: the exception raised
\* (or "ok"), self.data and the file content when the call ends, and the
\* count returned.  cache is self.data, file the content of the group file,
\* pl is self.preLoad, tok says that the file's token decrypts under
\* self.key; when it does not, every read of the file raises InvalidToken.
Outcome(st, cache, file, n) == [st |-> st, data |-> cache, disk |-> file, n |-> n]

\* update_one that rewrites the file but leaves self.data as it was
update_one_nocache(cache, file, pl, filters, nValues, tok) ==
    IF ~pl /\ ~tok THEN Outcome("InvalidToken", cache, file, 0) ELSE
    LET r == get_one(IF pl THEN cache ELSE file, filters, "")
    IN  IF r.st \in {"False", "None"}
        THEN Outcome("AttributeError", cache, file, 0)
        ELSE IF r.st # "ok"
        THEN Outcome(r.st, cache, file, 0)
        ELSE LET doc == r.val
                 nDoc == DictUpdate(doc, nValues)
             IN  IF ~tok THEN Outcome("InvalidToken", cache, file, 0)
                 ELSE IF ~InList(doc, file)
                 THEN Outcome("ValueError", cache, file, 0)
                 ELSE Outcome("ok", cache, Append(ListRemove(file, doc), nDoc), 0)

\* update_one that puts the updated copy at the front of both lists
update_one_front(cache, file, pl, filters, nValues, tok) ==
    IF ~pl /\ ~tok THEN Outcome("InvalidToken", cache, file, 0) ELSE
    LET r == get_one(IF pl THEN cache ELSE file, filters, "")
    IN  IF r.st \in {"False", "None"}
        THEN Outcome("AttributeError", cache, file, 0)
        ELSE IF r.st # "ok"
        THEN Outcome(r.st, cache, file, 0)
        ELSE LET doc == r.val
                 nDoc == DictUpdate(doc, nValues)
                 cache1 == IF pl THEN <<nDoc>> \o ListRemove(cache, doc) ELSE cache
             IN  IF ~tok THEN Outcome("InvalidToken", cache1, file, 0)
                 ELSE IF ~InList(doc, file)
                 THEN Outcome("ValueError", cache1, file, 0)
                 ELSE Outcome("ok", cache1, <<nDoc>> \o ListRemove(file, doc), 0)

update_one(cache, file, pl, filters, nValues, tok) ==
    IF ~pl /\ ~tok THEN Outcome("InvalidToken", cache, file, 0) ELSE
    LET r == get_one(IF pl THEN cache ELSE file, filters, "")
    IN  IF r.st \in {"False", "None"}
        THEN Outcome("AttributeError", cache, file, 0)
        ELSE IF r.st # "ok"
        THEN Outcome(r.st, cache, file, 0)
        ELSE LET doc == r.val
                 nDoc == DictUpdate(doc, nValues)
                 cache1 == IF pl THEN Append(ListRemove(cache, doc), nDoc) ELSE cache
             IN  IF ~tok THEN Outcome("InvalidToken", cache1, file, 0)
                 ELSE IF ~InList(doc, file)
                 THEN Outcome("ValueError", cache1, file, 0)
                 ELSE Outcome("ok", cache1, Append(ListRemove(file, doc), nDoc), 0)

\* update that appends the documents it found instead of their merged copies
update_nomerge(cache, file, pl, filters, nValues, tok) ==
    IF ~pl /\ ~tok THEN Outcome("InvalidToken", cache, file, 0) ELSE
    LET r == get(IF pl THEN cache ELSE file, filters, "")
    IN  IF r.st # "ok"
        THEN Outcome(r.st, cache, file, 0)
        ELSE LET doc == r.val
                 cache1 == IF pl THEN RemoveEach(cache, doc, 1).val \o doc ELSE cache
                 docs == RemoveEach(file, doc, 1)
             IN  IF ~tok THEN Outcome("InvalidToken", cache1, file, 0)
                 ELSE IF docs.st # "ok"
                 THEN Outcome("ValueError", cache1, file, 0)
                 ELSE Outcome("ok", cache1, docs.val \o doc, Len(doc))

\* update that writes the list back although a found document was not in it
update_partial(cache, file, pl, filters, nValues, tok) ==
    IF ~pl /\ ~tok THEN Outcome("InvalidToken", cache, file, 0) ELSE
    LET r == get(IF pl THEN cache ELSE file, filters, "")
    IN  IF r.st # "ok"
        THEN Outcome(r.st, cache, file, 0)
        ELSE LET doc == r.val
                 nDoc == UpdateEach(doc, nValues)
                 cache1 == IF pl THEN RemoveEach(cache, doc, 1).val \o nDoc ELSE cache
                 docs == RemoveEach(file, doc, 1)
             IN  IF ~tok THEN Outcome("InvalidToken", cache1, file, 0)
                 ELSE IF docs.st # "ok"
                 THEN Outcome("ValueError", cache1, docs.val, 0)
                 ELSE Outcome("ok", cache1, docs.val \o nDoc, Len(nDoc))

update(cache, file, pl, filters, nValues, tok) ==
    IF ~pl /\ ~tok THEN Outcome("InvalidToken", cache, file, 0) ELSE
    LET r == get(IF pl THEN cache ELSE file, filters, "")
    IN  IF r.st # "ok"
        THEN Outcome(r.st, cache, file, 0)
        ELSE LET doc == r.val
                 nDoc == UpdateEach(doc, nValues)
                 cache1 == IF pl THEN RemoveEach(cache, doc, 1).val \o nDoc ELSE cache
                 docs == RemoveEach(file, doc, 1)
             IN  IF ~tok THEN Outcome("InvalidToken", cache1, file, 0)
                 ELSE IF docs.st # "ok"
                 THEN Outcome("ValueError", cache1, file, 0)
                 ELSE Outcome("ok", cache1, docs.val \o nDoc, Len(nDoc))

remove_one(cache, file, pl, filters, tok) ==
    IF ~pl /\ ~tok THEN Outcome("InvalidToken", cache, file, 0) ELSE
    LET r == get_one(IF pl THEN cache ELSE file, filters, "")
    IN  IF r.st \in {"False", "None"}
        THEN Outcome("ValueError", cache, file, 0)
        ELSE IF r.st # "ok"
        THEN Outcome(r.st, cache, file, 0)
        ELSE LET doc == r.val
                 cache1 == IF pl THEN ListRemove(cache, doc) ELSE cache
             IN  IF ~tok THEN Outcome("InvalidToken", cache1, file, 0)
                 ELSE IF ~InList(doc, file)
                 THEN Outcome("ValueError", cache1, file, 0)
                 ELSE Outcome("ok", cache1, ListRemove(file, doc), 0)

\* remove that writes self.data back instead of the list read from the file
remove_fromcache(cache, file, pl, filters, tok) ==
    IF ~pl /\ ~tok THEN Outcome("InvalidToken", cache, file, 0) ELSE
    LET r == get(IF pl THEN cache ELSE file, filters, "")
    IN  IF r.st # "ok"
        THEN Outcome(r.st, cache, file, 0)
        ELSE LET doc == r.val
                 cache1 == IF pl THEN RemoveEach(cache, doc, 1).val ELSE cache
                 docs == RemoveEach(file, doc, 1)
             IN  IF ~tok THEN Outcome("InvalidToken", cache1, file, 0)
                 ELSE IF docs.st # "ok"
                 THEN Outcome("ValueError", cache1, file, 0)
                 ELSE Outcome("ok", cache1, IF pl THEN cache1 ELSE docs.val, Len(doc))

remove(cache, file, pl, filters, tok) ==
    IF ~pl /\ ~tok THEN Outcome("InvalidToken", cache, file, 0) ELSE
    LET r == get(IF pl THEN cache ELSE file, filters, "")
    IN  IF r.st # "ok"
        THEN Outcome(r.st, cache, file, 0)
        ELSE LET doc == r.val
                 cache1 == IF pl THEN RemoveEach(cache, doc, 1).val ELSE cache
                 docs == RemoveEach(file, doc, 1)
             IN  IF ~tok THEN Outcome("InvalidToken", cache1, file, 0)
                 ELSE IF docs.st # "ok"
                 THEN Outcome("ValueError", cache1, file, 0)
                 ELSE Outcome("ok", cache1, docs.val, Len(doc))

UpdateOne(filters, nValues) ==
    LET o == update_one(data, disk, preLoad, filters, nValues, selfKey = fileKey)
    IN  /\ last = Idle
        /\ data' = o.data
        /\ disk' = o.disk
        /\ last' = Call("update_one", filters, "", nValues, <<>>, o.st, <<>>, o.n)
        /\ UNCHANGED <<preLoad, xvars>>

Update(filters, nValues) ==
    LET o == update(data, disk, preLoad, filters, nValues, selfKey = fileKey)
    IN  /\ last = Idle
        /\ data' = o.data
        /\ disk' = o.disk
        /\ last' = Call("update", filters, "", nValues, <<>>, o.st, <<>>, o.n)
        /\ UNCHANGED <<preLoad, xvars>>

RemoveOne(filters) ==
    LET o == remove_one(data, disk, preLoad, filters, selfKey = fileKey)
    IN  /\ last = Idle
        /\ data' = o.data
        /\ disk' = o.disk
        /\ last' = Call("remove_one", filters, "", <<>>, <<>>, o.st, <<>>, o.n)
        /\ UNCHANGED <<preLoad, xvars>>

Remove(filters) ==
    LET o == remove(data, disk, preLoad, filters, selfKey = fileKey)
    IN  /\ last = Idle
        /\ data' = o.data
        /\ disk' = o.disk
        /\ last' = Call("remove", filters, "", <<>>, <<>>, o.st, <<>>, o.n)
        /\ UNCHANGED <<preLoad, xvars>>

\* the caller takes the result of the completed call; the group object
\* itself is left as the call left it
Return ==
    /\ last # Idle
    /\ last' = Idle
    /\ UNCHANGED <<disk, data, preLoad, xvars>>

Next ==
    \/ \E d \in Documents : Insert(d)
    \/ \E batch \in BatchSet : InsertMany(batch)
    \/ \E filters \in FilterSet, sortby \in SortBySet : GetOne(filters, sortby)
    \/ \E filters \in FilterSet, sortby \in SortBySet : Get(filters, sortby)
    \/ \E filters \in FilterSet, nValues \in NValueSet : UpdateOne(filters, nValues)
    \/ \E filters \in FilterSet, nValues \in NValueSet : Update(filters, nValues)
    \/ \E filters \in FilterSet : RemoveOne(filters)
    \/ \E filters \in FilterSet : Remove(filters)
    \/ Return

Spec == Init /\ [][Next]_vars

\* ---- a group whose file other writers share ------------------------------
\* The group object keeps self.key and, when preLoad, self.data from the time
\* it was opened, while the file can be rewritten through other group
\* objects, and the database can be dropped and created again under a new
\* key.
Keys == {"k1", "k2"}

SharedDocs == {[f \in {"a"} |-> v] : v \in Values}
SharedFilters == {<<>>} \cup {<<Eq("a", v)>> : v \in Values}
SharedNValues == {[f \in {"a"} |-> 0]}
SharedBatches == {<<[f \in {"a"} |-> 0], [f \in {"a"} |-> MaxVal]>>}

\* fetch_data(): the load the constructor makes when preLoad, and the
\* refresh a caller can ask for
FetchData ==
    /\ last = Idle
    /\ data' = IF selfKey = fileKey THEN disk ELSE data
    /\ last' = Call("fetch_data", <<>>, "", <<>>, <<>>,
                    IF selfKey = fileKey THEN "ok" ELSE "InvalidToken", <<>>, 0)
    /\ UNCHANGED <<disk, preLoad, xvars>>

\* insert(d) through another group object of the same file, opened without
\* preLoad under the file's current key
OtherInsert(d) ==
    /\ last = Idle
    /\ Len(disk) < MaxDocs
    /\ disk' = Append(disk, d)
    /\ UNCHANGED <<data, preLoad, last, xvars>>

\* remove_one(filters) through such another group object
OtherRemoveOne(filters) ==
    LET o == remove_one(<<>>, disk, FALSE, filters, TRUE)
    IN  /\ last = Idle
        /\ o.st = "ok"
        /\ disk' = o.disk
        /\ UNCHANGED <<data, preLoad, last, xvars>>

\* the database is dropped and created again, which generates a new key,
\* and the group is created again: its file holds the token of [] under the
\* new key.  The group object opened before keeps the old key.
Rekey ==
    /\ last = Idle
    /\ fileKey = selfKey
    /\ fileKey' \in Keys \ {fileKey}
    /\ disk' = <<>>
    /\ UNCHANGED <<data, preLoad, last, mvars, pvars, selfKey, dvars, rvars>>

NextShared ==
    \/ \E d \in SharedDocs : Insert(d)
    \/ \E batch \in SharedBatches : InsertMany(batch)
    \/ \E filters \in SharedFilters, sortby \in {"", "a"} : GetOne(filters, sortby)
    \/ \E filters \in SharedFilters, sortby \in {"", "a"} : Get(filters, sortby)
    \/ \E filters \in SharedFilters, nValues \in SharedNValues : UpdateOne(filters, nValues)
    \/ \E filters \in SharedFilters, nValues \in SharedNValues : Update(filters, nValues)
    \/ \E filters \in SharedFilters : RemoveOne(filters)
    \/ \E filters \in SharedFilters : Remove(filters)
    \/ Return
    \/ FetchData
    \/ \E d \in SharedDocs : OtherInsert(d)
    \/ \E filters \in SharedFilters : OtherRemoveOne(filters)
    \/ Rekey

SpecShared == Init /\ [][NextShared]_vars

\* ---- the database object and its registry of groups ----------------------
Names == {"g1", "g2"}

\* the lists of distinct names metadata.json can hold when the database is
\* opened
Registries == {<<>>, <<"g1">>, <<"g2">>, <<"g1", "g2">>, <<"g2", "g1">>}

Range(s) == {s[i] : i \in 1 .. Len(s)}

\* db.__init__ on a database directory that holds the groups of reg; with
\* preLoad the metadata is read at once
InitDb ==
    /\ preLoad = FALSE
    /\ disk = <<>>
    /\ data = <<>>
    /\ last = Idle
    /\ mIn = [doc |-> 0, filters |-> Plain(0)]
    /\ mOut = "idle"
    /\ pIn = [fn |-> "", arr |-> <<>>, key |-> "", value |-> 0]
    /\ pOut = [st |-> "idle", val |-> <<>>]
    /\ selfKey = "k1"
    /\ fileKey = "k1"
    /\ \E reg \in Registries, dbPreLoad \in BOOLEAN :
          /\ meta = reg
          /\ files = Range(reg)
          /\ groups = IF dbPreLoad THEN reg ELSE <<>>
          /\ dbKey = IF dbPreLoad THEN "k1" ELSE "None"
    /\ held = {}
    /\ dLast = DbCall("db", "", TRUE, "ok")
    /\ RaceQuiet

\* The outcome of getGroup / createGroup: the exception raised (or "ok"),
\* and db.groups, db.key, the files and the metadata when the call ends.
DbOutcome(st, gs, k, fs, md) == [st |-> st, groups |-> gs, dbKey |-> k, files |-> fs, meta |-> md]

\* getGroup on a name whose file exists: createGroup hands such a name
\* straight back to getGroup, which hands a name it does not hold back to
\* createGroup, without end
getGroupExisting(name, gs, k, fs, md) ==
    IF InList(name, gs) THEN DbOutcome("ok", gs, k, fs, md)
    ELSE DbOutcome("RecursionError", gs, k, fs, md)

createGroup(name, safeMode, gs, k, fs, md) ==
    IF name \in fs
    THEN IF safeMode THEN getGroupExisting(name, gs, k, fs, md)
         ELSE DbOutcome("GroupExistsError", gs, k, fs, md)
    ELSE LET gs1 == IF k = "None" THEN md ELSE gs
             gs2 == Append(gs1, name)
         IN  DbOutcome("ok", gs2, "k1", fs \cup {name}, gs2)

getGroup(name, safeMode, gs, k, fs, md) ==
    IF ~InList(name, gs)
    THEN IF safeMode THEN createGroup(name, TRUE, gs, k, fs, md)
         ELSE DbOutcome("GroupNotFoundError", gs, k, fs, md)
    ELSE DbOutcome("ok", gs, k, fs, md)

GetGroup(name, safeMode) ==
    LET o == getGroup(name, safeMode, groups, dbKey, files, meta)
    IN  /\ groups' = o.groups
        /\ dbKey' = o.dbKey
        /\ files' = o.files
        /\ meta' = o.meta
        /\ held' = IF o.st = "ok" THEN held \cup {name} ELSE held
        /\ dLast' = DbCall("getGroup", name, safeMode, o.st)
        /\ UNCHANGED <<gvars, mvars, pvars, kvars, rvars>>

CreateGroup(name, safeMode) ==
    LET o == createGroup(name, safeMode, groups, dbKey, files, meta)
    IN  /\ groups' = o.groups
        /\ dbKey' = o.dbKey
        /\ files' = o.files
        /\ meta' = o.meta
        /\ held' = IF o.st = "ok" THEN held \cup {name} ELSE held
        /\ dLast' = DbCall("createGroup", name, safeMode, o.st)
        /\ UNCHANGED <<gvars, mvars, pvars, kvars, rvars>>

\* group(name, parent) made directly by the caller: nothing is read
NewGroup(name) ==
    /\ held' = held \cup {name}
    /\ dLast' = DbCall("group", name, TRUE, "ok")
    /\ UNCHANGED <<groups, dbKey, files, meta, gvars, mvars, pvars, kvars, rvars>>

\* drop that deletes the file and leaves the registry alone
drop_fileonly(name, gs, k, fs, md) ==
    IF name \notin fs
    THEN DbOutcome("FileNotFoundError", gs, k, fs, md)
    ELSE DbOutcome("ok", gs, k, fs \ {name}, md)

\* drop() of the group object of name
drop(name, gs, k, fs, md) ==
    IF name \notin fs
    THEN DbOutcome("FileNotFoundError", gs, k, fs, md)
    ELSE IF ~InList(name, gs)
    THEN DbOutcome("ValueError", gs, k, fs \ {name}, md)
    ELSE IF ~InList(name, md)
    THEN DbOutcome("ValueError", ListRemove(gs, name), k, fs \ {name}, md)
    ELSE DbOutcome("ok", ListRemove(gs, name), k, fs \ {name}, ListRemove(md, name))

Drop(name) ==
    LET o == drop(name, groups, dbKey, files, meta)
    IN  /\ name \in held
        /\ groups' = o.groups
        /\ dbKey' = o.dbKey
        /\ files' = o.files
        /\ meta' = o.meta
        /\ dLast' = DbCall("drop", name, TRUE, o.st)
        /\ UNCHANGED <<held, gvars, mvars, pvars, kvars, rvars>>

NextDb ==
    \/ \E name \in Names, safeMode \in BOOLEAN : GetGroup(name, safeMode)
    \/ \E name \in Names, safeMode \in BOOLEAN : CreateGroup(name, safeMode)
    \/ \E name \in Names : NewGroup(name)
    \/ \E name \in Names : Drop(name)

SpecDb == InitDb /\ [][NextDb]_vars

\* ---- insert followed step by step ----------------------------------------
\* insert on a group object without preLoad, one step per access to the
\* file: the read of the whole file, truncate(0), and the write, which
\* reaches the file when the with block closes it.  Nothing orders the steps
\* of one caller against those of another, and a caller's process can stop
\* between any two of them.

\* largest number of documents the file holds in these runs
MaxRace == 4

\* the state every variable outside rvars and disk keeps in these runs
InitRace ==
    /\ preLoad = FALSE
    /\ disk = <<>>
    /\ data = <<>>
    /\ last = Idle
    /\ mIn = [doc |-> 0, filters |-> Plain(0)]
    /\ mOut = "idle"
    /\ pIn = [fn |-> "", arr |-> <<>>, key |-> "", value |-> 0]
    /\ pOut = [st |-> "idle", val |-> <<>>]
    /\ selfKey = "k1"
    /\ fileKey = "k1"
    /\ DbQuiet
    /\ RaceQuiet

\* a document holding a value json.dumps cannot encode (a set, bytes, an
\* object): insert takes any dict, and dict(data) keeps the value
NonJson == [f \in {"a"} |-> 0 - 1]

\* json.dumps(d) returns unless some document holds such a value
Dumps(d) == \A i \in 1..Len(d) : d[i] # NonJson

\* the documents a caller hands to insert
RaceDocs == SharedDocs \cup {NonJson}

\* what no step of an insert touches
ovars == <<data, preLoad, last, mvars, pvars, kvars, dvars>>

\* open(path, "rb+"), grp.read(), decrypt, json.loads, d.append(data); an
\* empty or garbled file does not decrypt
InsertLoad(c, d) ==
    /\ pc[c] = "idle"
    /\ Len(disk) < MaxRace
    /\ IF blob = "token"
       THEN /\ pc' = [pc EXCEPT ![c] = "loaded"]
            /\ local' = [local EXCEPT ![c] = Append(disk, d)]
       ELSE /\ pc' = [pc EXCEPT ![c] = "InvalidToken"]
            /\ local' = local
    /\ UNCHANGED <<disk, blob, ovars>>

\* grp.truncate(0): the file is empty at once
InsertTruncate(c) ==
    /\ pc[c] = "loaded"
    /\ pc' = [pc EXCEPT ![c] = "truncated"]
    /\ blob' = "empty"
    /\ disk' = <<>>
    /\ UNCHANGED <<local, ovars>>

\* the write as one that appends to whatever the file holds by then
InsertWrite_append(c) ==
    /\ pc[c] = "truncated"
    /\ pc' = [pc EXCEPT ![c] = "True"]
    /\ blob' = "token"
    /\ disk' = disk \o local[c]
    /\ local' = [local EXCEPT ![c] = <<>>]
    /\ UNCHANGED ovars

\* grp.seek(0); grp.write(Fernet(key).encrypt(json.dumps(d).encode()));
\* close.  The argument is computed after the truncate: when json.dumps
\* raises, nothing is written and the file stays as the truncate left it.
\* Otherwise the token of d goes to offset 0.  If another caller has written
\* since this caller's truncate, the file keeps its bytes beyond the new
\* token: the result is the new token when that one is at least as long
\* (the stored documents all encode to the same length), and otherwise the
\* new token followed by the rest of the old one unless both have the same
\* length.
InsertWrite(c) ==
    /\ pc[c] = "truncated"
    /\ IF Dumps(local[c])
       THEN /\ pc' = [pc EXCEPT ![c] = "True"]
            /\ \/ /\ blob' = "token"
                  /\ disk' = local[c]
               \/ /\ \/ blob = "garbled"
                     \/ blob = "token" /\ Len(local[c]) < Len(disk)
                  /\ blob' = "garbled"
                  /\ disk' = <<>>
       ELSE /\ pc' = [pc EXCEPT ![c] = "TypeError"]
            /\ UNCHANGED <<blob, disk>>
    /\ local' = [local EXCEPT ![c] = <<>>]
    /\ UNCHANGED ovars

\* the caller takes the result, True or the exception
InsertReturn(c) ==
    /\ pc[c] \in {"True", "InvalidToken", "TypeError"}
    /\ pc' = [pc EXCEPT ![c] = "idle"]
    /\ UNCHANGED <<disk, blob, local, ovars>>

\* the caller's process stops where it stands, and the next process to open
\* the group starts with nothing loaded; the file is as the steps taken so
\* far left it
Stop(c) ==
    /\ pc[c] \in {"loaded", "truncated"}
    /\ pc' = [pc EXCEPT ![c] = "idle"]
    /\ local' = [local EXCEPT ![c] = <<>>]
    /\ UNCHANGED <<disk, blob, ovars>>

\* two callers whose steps interleave
NextRace ==
    \E c \in Callers :
        \/ \E d \in SharedDocs : InsertLoad(c, d)
        \/ InsertTruncate(c)
        \/ InsertWrite(c)
        \/ InsertReturn(c)

SpecRace == InitRace /\ [][NextRace]_vars

\* one caller whose process can stop in the middle of a call
NextCrash ==
    \E c \in {"c1"} :
        \/ \E d \in RaceDocs : InsertLoad(c, d)
        \/ InsertTruncate(c)
        \/ InsertWrite(c)
        \/ InsertReturn(c)
        \/ Stop(c)

SpecCrash == InitRace /\ [][NextCrash]_vars

\* ---- matchDocs called directly ------------------------------------------
CompareTags == {"__ne", "__gt", "__lt", "__lte", "__gte"}
ValidTags == CompareTags \cup {"__re", "__cf"}

\* the dict items a direct call is made with; "__zz" is not an operator
ItemSet ==
    {Item(t, a) : t \in CompareTags, a \in Values}
    \cup {Item("__zz", 0)}
    \cup {ObjItem("__re", p) : p \in {"^1$", "^0", "("}}
    \cup {ObjItem("__cf", fn) : fn \in {"positive", "raises"}}

\* a dict has each key once
DistinctTags(items) ==
    \A i, j \in 1 .. Len(items) : i # j => items[i].tag # items[j].tag

OpDicts ==
    UNION {{items \in [1 .. n -> ItemSet] : DistinctTags(items)} : n \in 0 .. MaxOps}

MatchInputs ==
    {[doc |-> d, filters |-> Plain(v)] : d \in Values, v \in Values}
    \cup {[doc |-> d, filters |-> Ops(items)] : d \in Values, items \in OpDicts}

InitMatch ==
    /\ preLoad = FALSE
    /\ disk = <<>>
    /\ data = <<>>
    /\ last = Idle
    /\ mIn \in MatchInputs
    /\ mOut = "pending"
    /\ pIn = [fn |-> "", arr |-> <<>>, key |-> "", value |-> 0]
    /\ pOut = [st |-> "idle", val |-> <<>>]
    /\ selfKey = "k1"
    /\ fileKey = "k1"
    /\ DbQuiet
    /\ RaceQuiet

MatchDocs ==
    /\ mOut = "pending"
    /\ mOut' = matchDocs(mIn.doc, mIn.filters)
    /\ UNCHANGED <<mIn, gvars, pvars, kvars, dvars, rvars>>

NextMatch == MatchDocs

SpecMatch == InitMatch /\ [][NextMatch]_vars

\* ---- merge_sort and binary_search called directly ------------------------
\* every list of at most MaxDocs documents
Lists == UNION {[1 .. n -> Documents] : n \in 0 .. MaxDocs}

\* every document of the list has the key
AllHave(arr, key) == \A i \in 1 .. Len(arr) : key \in DOMAIN arr[i]

\* the list is ascending by key (binary_search is only valid on such a list)
Ascending(arr, key) ==
    /\ AllHave(arr, key)
    /\ \A i \in 1 .. (Len(arr) - 1) : arr[i][key] <= arr[i + 1][key]

SortInputs ==
    {[fn |-> "merge_sort", arr |-> arr, key |-> k, value |-> 0] :
        arr \in Lists, k \in Fields}

SearchInputs ==
    {[fn |-> "binary_search", arr |-> arr, key |-> k, value |-> v] :
        arr \in {l \in Lists : Ascending(l, "a")}, k \in {"a"}, v \in Values}

InitSort ==
    /\ preLoad = FALSE
    /\ disk = <<>>
    /\ data = <<>>
    /\ last = Idle
    /\ mIn = [doc |-> 0, filters |-> Plain(0)]
    /\ mOut = "idle"
    /\ pIn \in SortInputs \cup SearchInputs
    /\ pOut = [st |-> "pending", val |-> <<>>]
    /\ selfKey = "k1"
    /\ fileKey = "k1"
    /\ DbQuiet
    /\ RaceQuiet

MergeSort ==
    /\ pOut.st = "pending"
    /\ pIn.fn = "merge_sort"
    /\ pOut' = merge_sort(pIn.arr, pIn.key)
    /\ UNCHANGED <<pIn, gvars, mvars, kvars, dvars, rvars>>

BinarySearch ==
    /\ pOut.st = "pending"
    /\ pIn.fn = "binary_search"
    /\ pOut' = LET r == binary_search(pIn.arr, pIn.key, pIn.value)
               IN  [st |-> r.st, val |-> IF r.st = "ok" THEN <<r.val>> ELSE <<>>]
    /\ UNCHANGED <<pIn, gvars, mvars, kvars, dvars, rvars>>

NextSort == MergeSort \/ BinarySearch

SpecSort == InitSort /\ [][NextSort]_vars

\* ==== properties ==========================================================
\* the two not-found values of get_one
NotFound == {"False", "None"}

\* the last call is a get_one that took the sort + binary_search branch
FastPathCall ==
    /\ last.op = "get_one"
    /\ last.sortby = ""
    /\ Len(last.filters) = 1
    /\ ~last.filters[1].spec.isDict

\* the fields a filters dict names
FilterFields(filters) == {filters[j].field : j \in 1 .. Len(filters)}

\* number of occurrences of document d in list s
Count(d, s) == Cardinality({i \in 1 .. Len(s) : s[i] = d})

\* C1: after insert(D) returned, findOne({f: D[f]}) returns a document
\* equal to D, for every field f of D and whatever the group held before.
C1_RoundTrip ==
    (last.op = "insert" /\ last.st = "ok") =>
        \A f \in DOMAIN last.arg :
            LET r == get_one(Docs, <<Eq(f, last.arg[f])>>, "")
            IN  r.st = "ok" /\ r.val = last.arg

\* C2: for a single plain-equality filter, findOne on the fast path
\* returns a document exactly when the linear scan of findAll with the same
\* filter finds at least one.
C2_FastPathEquivalence ==
    FastPathCall =>
        ((last.st = "ok") <=> (get(Docs, last.filters, "").val # <<>>))

C8_MissingFieldIsNonMatch ==
    (last.op \in {"get", "get_one"} /\ last.sortby = "") =>
        /\ last.st \notin {"ValueError", "KeyError"}
        /\ \A k \in 1 .. Len(last.ret) : FilterFields(last.filters) \subseteq DOMAIN last.ret[k]

\* C9: an operator dict holding a tag outside the seven operators makes
\* matchDocs fail with InvalidFilterError, whatever the value, the other
\* operators and their order.
C9_UnknownTagRaises ==
    (/\ mOut # "pending"
     /\ mIn.filters.isDict
     /\ \E i \in 1 .. Len(mIn.filters.items) : mIn.filters.items[i].tag \notin ValidTags)
        => mOut = "InvalidFilterError"

\* the condition the table of operators gives for a comparison tag
Holds(tag, value, operand) ==
    CASE tag = "__ne"  -> value # operand
      [] tag = "__gt"  -> value > operand
      [] tag = "__lt"  -> value < operand
      [] tag = "__lte" -> value <= operand
      [] tag = "__gte" -> value >= operand

\* C10: on integers, matchDocs(value, spec) is value = spec for a plain
\* spec, and for a dict of comparison operators it is True exactly when the
\* condition of every listed operator holds, False otherwise.
C10_OperatorCorrectness ==
    LET f == mIn.filters
    IN  /\ (mOut # "pending" /\ ~f.isDict) =>
              mOut = (IF mIn.doc = f.v THEN "True" ELSE "False")
        /\ (/\ mOut # "pending"
            /\ f.isDict
            /\ \A i \in 1 .. Len(f.items) : f.items[i].tag \in CompareTags) =>
              mOut = (IF \A i \in 1 .. Len(f.items) :
                            Holds(f.items[i].tag, mIn.doc, f.items[i].arg)
                      THEN "True" ELSE "False")

\* C10 witness: a dict of two comparison operators whose first condition
\* holds and whose second fails
C10_Witness ==
    /\ mOut = "False"
    /\ mIn.filters.isDict
    /\ Len(mIn.filters.items) = 2
    /\ \A i \in 1 .. 2 : mIn.filters.items[i].tag \in CompareTags
    /\ Holds(mIn.filters.items[1].tag, mIn.doc, mIn.filters.items[1].arg)
    /\ ~Holds(mIn.filters.items[2].tag, mIn.doc, mIn.filters.items[2].arg)

\* the list the next query reads once the step has been taken
DocsNext == IF preLoad THEN data' ELSE disk'

\* document d satisfies every filter of the dict (the scan's matches = True)
Matches(d, filters) == FilterLoop(d, filters, 1) = "True"

\* the documents of list s that satisfy / do not satisfy the filters
Matching(s, filters) == LET T(d) == Matches(d, filters) IN SelectSeq(s, T)
NonMatching(s, filters) == LET T(d) == ~Matches(d, filters) IN SelectSeq(s, T)

RECURSIVE IsSubseq(_, _)
\* the elements of a occur in b in the same relative order
IsSubseq(a, b) ==
    IF Len(a) = 0 THEN TRUE
    ELSE IF Len(b) = 0 THEN FALSE
    ELSE IF Head(a) = Head(b) THEN IsSubseq(Tail(a), Tail(b))
    ELSE IsSubseq(a, Tail(b))

\* list s without its i-th element
DropAt(s, i) == SubSeq(s, 1, i - 1) \o SubSeq(s, i + 1, Len(s))

\* C4: update(filters, nValues) returns the number of documents that
\* matched before the call; the stored documents afterwards are the former
\* ones with each matching document replaced by its copy merged with nValues;
\* the non-matching documents keep their relative order and the document
\* count is unchanged; and when no merged copy satisfies the filters any
\* more, findAll(filters) afterwards is empty.
C4_UpdateContract ==
    [][(last'.op = "update" /\ last'.st = "ok") =>
        LET f == last'.filters
            nv == last'.arg
            m == Matching(disk, f)
            merged == [k \in 1 .. Len(m) |-> DictUpdate(m[k], nv)]
        IN  /\ last'.n = Len(m)
            /\ Len(disk') = Len(disk)
            /\ \A d \in Documents :
                  Count(d, disk') = Count(d, disk) - Count(d, m) + Count(d, merged)
            /\ IsSubseq(NonMatching(disk, f), disk')
            /\ (\A k \in 1 .. Len(merged) : ~Matches(merged[k], f)) =>
                  get(DocsNext, f, "") = [st |-> "ok", val |-> <<>>]
    ]_vars

\* C4 witness: an update that rewrote two documents, left another one
\* alone, and after which no document satisfies the filters
C4_Witness ==
    /\ last.op = "update" /\ last.st = "ok"
    /\ last.n >= 2
    /\ Len(disk) > last.n
    /\ get(Docs, last.filters, "").val = <<>>

\* C5: remove(filters) returns the number of documents that matched before
\* the call, the stored count drops by exactly that number, the non-matching
\* documents stay in the same relative order, and findOne(filters)
\* afterwards returns none.
C5_RemoveContract ==
    [][(last'.op = "remove" /\ last'.st = "ok") =>
        LET f == last'.filters
            m == Matching(disk, f)
        IN  /\ last'.n = Len(m)
            /\ Len(disk') = Len(disk) - Len(m)
            /\ disk' = NonMatching(disk, f)
            /\ get_one(DocsNext, f, "").st \in NotFound
    ]_vars

\* C6: whenever a stored document matches the filters, update_one succeeds
\* and exactly one matching document is replaced by its copy merged with
\* nValues; every other document and the document count are unchanged, on
\* disk and in the cache.
C6_UpdateOneContract ==
    [][(last'.op = "update_one" /\ Matching(disk, last'.filters) # <<>>) =>
        /\ last'.st = "ok"
        /\ Len(disk') = Len(disk)
        /\ \E i \in 1 .. Len(disk) :
              /\ Matches(disk[i], last'.filters)
              /\ \A d \in Documents :
                    Count(d, disk') = Count(d, DropAt(disk, i))
                        + (IF d = DictUpdate(disk[i], last'.arg) THEN 1 ELSE 0)
        /\ preLoad => data' = disk'
    ]_vars

\* C7: whenever remove_one returns, the stored list afterwards is the
\* former one without the first document, in stored order, that matches the
\* filters; nothing else is deleted.
C7_RemoveOneFirst ==
    [][(last'.op = "remove_one" /\ last'.st = "ok") =>
        /\ Matching(disk, last'.filters) # <<>>
        /\ LET i == CHOOSE k \in 1 .. Len(disk) :
                        /\ Matches(disk[k], last'.filters)
                        /\ \A j \in 1 .. (k - 1) : ~Matches(disk[j], last'.filters)
           IN  disk' = DropAt(disk, i)
    ]_vars

\* the documents of list s whose key has value v, in list order
WithKey(s, key, v) == LET T(d) == key \in DOMAIN d /\ d[key] = v IN SelectSeq(s, T)

\* C11: merge_sort(sequence, key) on documents that all have the key returns
\* a permutation of the input, ascending by document[key], in which
\* documents with equal key values keep their relative order.
C11_StableSort ==
    (pIn.fn = "merge_sort" /\ pOut.st # "pending" /\ AllHave(pIn.arr, pIn.key)) =>
        /\ pOut.st = "ok"
        /\ Len(pOut.val) = Len(pIn.arr)
        /\ \A d \in Documents : Count(d, pOut.val) = Count(d, pIn.arr)
        /\ Ascending(pOut.val, pIn.key)
        /\ \A v \in Values : WithKey(pOut.val, pIn.key, v) = WithKey(pIn.arr, pIn.key, v)

\* C11 witness: a sorted list that differs from its input and in which two
\* different documents share a key value
C11_Witness ==
    /\ pIn.fn = "merge_sort" /\ pOut.st = "ok"
    /\ pOut.val # pIn.arr
    /\ \E i, j \in 1 .. Len(pIn.arr) :
          /\ i < j
          /\ pIn.arr[i] # pIn.arr[j]
          /\ pIn.key \in DOMAIN pIn.arr[i] /\ pIn.key \in DOMAIN pIn.arr[j]
          /\ pIn.arr[i][pIn.key] = pIn.arr[j][pIn.key]

\* C12: merge_sort fails with the missing-sort-key error (ValueError)
\* whenever a document of the input lacks the key, whatever the length of the
\* input, length 1 included.
C12_MissingSortKeyFails ==
    (pIn.fn = "merge_sort" /\ pOut.st # "pending" /\ ~AllHave(pIn.arr, pIn.key)) =>
        pOut.st = "ValueError"

\* C13: binary_search on a list ascending by key returns only a document of
\* the list whose key equals the value, and returns not-found only when no
\* document of the list has that value.
C13_BinarySearchCorrect ==
    (pIn.fn = "binary_search" /\ pOut.st # "pending") =>
        /\ pOut.st \in {"ok", "False"}
        /\ pOut.st = "ok" =>
              /\ InList(pOut.val[1], pIn.arr)
              /\ pOut.val[1][pIn.key] = pIn.value
        /\ pOut.st = "False" =>
              \A i \in 1 .. Len(pIn.arr) : pIn.arr[i][pIn.key] # pIn.value

\* the calls that read and the calls that write
QueryOps == {"get_one", "get"}
MutationOps == {"insert", "insert_many", "update_one", "update", "remove_one", "remove"}

\* C15: a get_one or get call, whatever its filters and sortby and whether
\* it returns or raises, leaves the file content and self.data as they were,
\* in content and order; the same get made again on the state the call
\* leaves returns the same list.
C15_QueriesReadOnly ==
    [][last'.op \in QueryOps =>
          /\ disk' = disk
          /\ data' = data
          /\ (last'.op = "get" /\ last'.st = "ok") =>
                get(DocsNext, last'.filters, last'.sortby) = [st |-> "ok", val |-> last'.ret]]_vars

\* C15 witness: a fast-path get_one has returned on a cached list that its
\* sort reorders
C15_Witness ==
    /\ FastPathCall
    /\ preLoad
    /\ last.st = "ok"
    /\ merge_sort(data, last.filters[1].field).st = "ok"
    /\ merge_sort(data, last.filters[1].field).val # data

RECURSIVE InsertEach(_, _, _)
\* the list after insert(batch[k]); ...; insert(batch[n]) on list s
InsertEach(s, batch, k) ==
    IF k > Len(batch) THEN s ELSE InsertEach(Append(s, batch[k]), batch, k + 1)

\* C16: insert_many(d1, ..., dn) leaves the file, and self.data when
\* preLoad, as insert(d1); ...; insert(dn) would: the documents held before
\* are an unchanged prefix and d1..dn follow in order.  insert(D) makes the
\* list exactly one document longer, D being the last.
C16_InsertManyIsInserts ==
    [][/\ (last'.op = "insert_many" /\ last'.st = "ok") =>
            /\ disk' = InsertEach(disk, last'.batch, 1)
            /\ SubSeq(disk', 1, Len(disk)) = disk
            /\ data' = IF preLoad THEN InsertEach(data, last'.batch, 1) ELSE data
       /\ (last'.op = "insert" /\ last'.st = "ok") =>
            /\ Len(disk') = Len(disk) + 1
            /\ SubSeq(disk', 1, Len(disk)) = disk
            /\ disk'[Len(disk')] = last'.arg
            /\ data' = IF preLoad THEN Append(data, last'.arg) ELSE data]_vars

\* C16 witness: a batch of two different documents went into a group that
\* already held one
C16_Witness ==
    /\ last.op = "insert_many"
    /\ Len(last.batch) = 2
    /\ last.batch[1] # last.batch[2]
    /\ Len(disk) = 3

\* C17: a get_one without sortby that takes the linear scan (no filter,
\* several filter fields, or an operator dict) returns the first element of
\* what get returns for the same filters, and None when get returns the
\* empty list.
C17_FindOneIsFirstOfFindAll ==
    (/\ last.op = "get_one"
     /\ last.sortby = ""
     /\ ~FastPathCall
     /\ get(Docs, last.filters, "").st = "ok") =>
        LET all == get(Docs, last.filters, "").val
        IN  IF all = <<>>
            THEN last.st = "None"
            ELSE last.st = "ok" /\ last.ret = <<all[1]>>

\* C17 witness: the scan passed over a first document that does not match
\* and returned one of two different matches
C17_Witness ==
    /\ last.op = "get_one"
    /\ last.sortby = ""
    /\ ~FastPathCall
    /\ last.st = "ok"
    /\ ~Matches(Docs[1], last.filters)
    /\ Len(Matching(Docs, last.filters)) = 2
    /\ Matching(Docs, last.filters)[1] # Matching(Docs, last.filters)[2]

RECURSIVE Pick(_, _, _)
\* the elements of list s at the positions of S from position i on, in order
Pick(s, S, i) ==
    IF i > Len(s) THEN <<>>
    ELSE (IF i \in S THEN <<s[i]>> ELSE <<>>) \o Pick(s, S, i + 1)

\* insert and insert_many add at the end of the file's list
InsertsAtEnd ==
    last'.op \in {"insert", "insert_many"} =>
        /\ Len(disk') >= Len(disk)
        /\ SubSeq(disk', 1, Len(disk)) = disk

\* remove_one and remove leave the remaining documents in their order
RemovesKeepOrder ==
    (last'.op \in {"remove_one", "remove"} /\ last'.st = "ok") => IsSubseq(disk', disk)

\* the number of documents an update call rewrote
Rewritten == IF last'.op = "update_one" THEN 1 ELSE last'.n

\* update_one and update put each merged copy where the document it
\* replaces was
UpdatesInPlace ==
    (last'.op \in {"update_one", "update"} /\ last'.st = "ok") =>
        \E S \in SUBSET (1 .. Len(disk)) :
            /\ Cardinality(S) = Rewritten
            /\ disk' = [i \in 1 .. Len(disk) |->
                           IF i \in S THEN DictUpdate(disk[i], last'.arg) ELSE disk[i]]

\* update_one and update take the documents they rewrite out of the list and
\* put the merged copies at its end, in the order the documents had
UpdatesMoveToEnd ==
    (last'.op \in {"update_one", "update"} /\ last'.st = "ok") =>
        \E S \in SUBSET (1 .. Len(disk)) :
            /\ Cardinality(S) = Rewritten
            /\ disk' = Pick(disk, (1 .. Len(disk)) \ S, 1)
                         \o UpdateEach(Pick(disk, S, 1), last'.arg)

\* C20 as claimed: after every mutation the remaining documents are in the
\* order in which they were inserted, an updated document keeping the
\* position of the document it replaces.
C20_InsertionOrderKept ==
    [][InsertsAtEnd /\ RemovesKeepOrder /\ UpdatesInPlace]_vars

\* C20 amended: inserted documents go to the end and removals keep the order
\* of the rest, but an updated document does not keep its position: every
\* update_one / update moves the documents it rewrites to the end of the
\* list, so stored order is the order of last write (insert or update), the
\* documents never updated keeping their insertion order among themselves.
C20_OrderOfLastWrite ==
    [][InsertsAtEnd /\ RemovesKeepOrder /\ UpdatesMoveToEnd]_vars

\* C20 witness: update_one has rewritten a document of a three-document list
\* and the only document carrying the new values is the last one
C20_Witness ==
    /\ last.op = "update_one" /\ last.st = "ok"
    /\ Len(disk) = 3
    /\ disk[3] = DictUpdate(disk[3], last.arg)
    /\ disk[1] # DictUpdate(disk[1], last.arg)
    /\ disk[2] # DictUpdate(disk[2], last.arg)
    /\ Matches(disk[1], last.filters) = FALSE

\* C18: a mutation call that ends in an error (no matching document, a
\* document found in self.data but no longer in the file, the file's token
\* not decrypting under self.key, a filter error) leaves the content of
\* the file exactly as it was before the call.
C18_FailedMutationKeepsFile ==
    [][(last'.op \in MutationOps /\ last'.st # "ok") => disk' = disk]_vars

\* C18 witness: update_one found its target in self.data, which another
\* writer had meanwhile removed from the file, and raised ValueError
C18_Witness ==
    /\ last.op = "update_one"
    /\ last.filters = <<>>
    /\ last.st = "ValueError"
    /\ selfKey = fileKey
    /\ preLoad
    /\ disk # <<>>

\* the calls that load the file although self.key is not the file's key
WrongKeyLoad ==
    /\ selfKey # fileKey
    /\ \/ last'.op = "fetch_data"
       \/ last'.op \in QueryOps /\ ~preLoad

\* C19: loading the group file under a key other than the one it was
\* encrypted with raises DecryptionFailedError, and neither self.data nor
\* the result of the query is filled from the file.
C19_WrongKeyDecryptionFailed ==
    [][WrongKeyLoad =>
          /\ last'.st = "DecryptionFailedError"
          /\ last'.ret = <<>>
          /\ data' = data]_vars

\* drop() of the group called name has just returned
Dropped(name) == dLast.op = "drop" /\ dLast.st = "ok" /\ dLast.name = name

\* after drop() the file is gone and the name is in neither registry
DropRemoves ==
    \A name \in Names :
        Dropped(name) =>
            /\ name \notin files
            /\ ~InList(name, groups)
            /\ ~InList(name, meta)

\* C14 as claimed: after drop() of a group its file does not exist, its name
\* is neither in db.groups nor in the metadata, and a getGroup of that name
\* that follows fails with GroupNotFoundError.
C14_DropThenNotFound ==
    [][/\ DropRemoves
       /\ \A name \in Names :
            (Dropped(name) /\ dLast'.op = "getGroup" /\ dLast'.name = name) =>
                dLast'.st = "GroupNotFoundError"]_vars

\* the name is listed exactly once in db.groups and in the metadata
ListedOnce(name) == Count(name, groups) = 1 /\ Count(name, meta) = 1

\* the name has no file and is in neither list
Absent(name) == name \notin files /\ ~InList(name, groups) /\ ~InList(name, meta)

\* C14 amended: when db.groups and the metadata list the name exactly once,
\* after drop() of the group its file does not exist and its name is neither
\* in db.groups nor in the metadata; a getGroup of that name that follows
\* fails with GroupNotFoundError when safeMode is disabled, and with safeMode
\* enabled (the default) it succeeds by creating the group again: the file
\* exists and the name is back in db.groups and the metadata.
C14_DropThenSafeModeRecreates ==
    [][\A name \in Names :
          /\ (/\ dLast'.op = "drop" /\ dLast'.st = "ok" /\ dLast'.name = name
              /\ ListedOnce(name)) =>
                 /\ name \notin files'
                 /\ ~InList(name, groups')
                 /\ ~InList(name, meta')
          /\ (/\ Dropped(name) /\ Absent(name)
              /\ dLast'.op = "getGroup" /\ dLast'.name = name) =>
                 IF dLast'.safeMode
                 THEN /\ dLast'.st = "ok"
                      /\ name \in files'
                      /\ InList(name, groups')
                      /\ InList(name, meta')
                 ELSE /\ dLast'.st = "GroupNotFoundError"
                      /\ UNCHANGED <<files, groups, meta>>]_vars

\* C14 witness: a group has been dropped while another group remains
C14_Witness ==
    \E name \in Names :
        /\ Dropped(name)
        /\ Absent(name)
        /\ files # {}
        /\ groups # <<>>

\* C21: a mutation that succeeds on a preloaded group object is applied to
\* the list read from the file at that call, not to self.data: a document
\* in the file loses at most as many copies as self.data held of it, so what
\* another writer added after self.data was loaded is still in the file, and
\* the file's length changes by exactly what the call added or removed.
C21_WriteRootedInFile ==
    [][(last'.op \in MutationOps /\ last'.st = "ok" /\ preLoad) =>
          /\ \A d \in Documents : Count(d, disk') >= Count(d, disk) - Count(d, data)
          /\ last'.op = "insert" => disk' = Append(disk, last'.arg)
          /\ last'.op = "insert_many" => disk' = disk \o last'.batch
          /\ last'.op \in {"update_one", "update"} => Len(disk') = Len(disk)
          /\ last'.op = "remove_one" => Len(disk') = Len(disk) - 1
          /\ last'.op = "remove" => Len(disk') = Len(disk) - last'.n]_vars

\* C21 witness: a remove on a preloaded group object took a document out of
\* the file, which still holds a document that self.data never had
C21_Witness ==
    /\ last.op = "remove" /\ last.st = "ok" /\ last.n = 1
    /\ preLoad
    /\ data = <<>>
    /\ Len(disk) = 1
    /\ ~Matches(disk[1], last.filters)

\* C23: when every stored document has the sortby field, get_one(filters,
\* sortby) returns the first element of get(filters, sortby), and None when
\* that list is empty; get sorts only the documents that passed the filters,
\* so it returns them, ascending by sortby, also when documents that do not
\* match lack the sortby field.
C23_SortedFindOneIsFirstOfFindAll ==
    LET f == last.filters
        all == get(Docs, f, last.sortby)
        scan == ScanAll(Docs, f, 1, <<>>)
    IN  /\ (/\ last.op = "get_one" /\ last.sortby # ""
            /\ AllHave(Docs, last.sortby)
            /\ all.st = "ok") =>
               IF all.val = <<>>
               THEN last.st = "None"
               ELSE last.st = "ok" /\ last.ret = <<all.val[1]>>
        /\ (/\ last.op = "get" /\ last.sortby # ""
            /\ scan.st = "ok"
            /\ AllHave(scan.val, last.sortby)) =>
               /\ last.st = "ok"
               /\ Ascending(last.ret, last.sortby)
               /\ \A d \in Documents : Count(d, last.ret) = Count(d, scan.val)

\* C23 witness: get_one with sortby returned a match that is not the first
\* match in stored order
C23_Witness ==
    /\ last.op = "get_one" /\ last.sortby # "" /\ last.st = "ok"
    /\ AllHave(Docs, last.sortby)
    /\ Len(Matching(Docs, last.filters)) >= 2
    /\ last.ret # <<Matching(Docs, last.filters)[1]>>

\* C25: a mutation call on a preloaded group object that ends in an error
\* (its self.data stale because another writer changed the file, or the load
\* of the file failing) leaves self.data as it was before the call.
C25_FailedMutationKeepsCache ==
    [][(last'.op \in MutationOps /\ last'.st # "ok" /\ preLoad) => data' = data]_vars

\* the calls made on the database object or on a group object it handed out
RegistryOps == {"createGroup", "getGroup", "drop"}

\* C26: after every completed createGroup, getGroup or drop call on one
\* database object, returned or raised, db.groups, the groups list in
\* metadata.json and the group files that exist name the same groups.
C26_RegistryConsistent ==
    dLast.op \in RegistryOps =>
        /\ Range(groups) = files
        /\ Range(meta) = files

\* C27: getGroup and createGroup in safe mode return a group object in
\* every state of the database object, one opened without loading the
\* metadata while the group's file exists included.
C27_SafeModeAccessReturns ==
    (dLast.op \in {"createGroup", "getGroup"} /\ dLast.safeMode) => dLast.st = "ok"

\* ---- C22 ----
\* C22: a caller's write puts its own list, the one it loaded with its
\* document appended, in place of whatever the file holds, so what another
\* caller wrote since the load is gone: with two callers' steps interleaved,
\* both inserts can return True while the file holds one document.
C22_WriteReplacesFile ==
    [][\A c \in Callers :
          (pc[c] = "truncated" /\ pc'[c] = "True" /\ blob' = "token") =>
              disk' = local[c]]_vars

\* both inserts have returned True and the file holds one document only
C22_Witness ==
    /\ pc["c1"] = "True"
    /\ pc["c2"] = "True"
    /\ blob = "token"
    /\ Len(disk) = 1

\* ---- C24 ----
\* C24: the file stops holding a valid token only at a truncate, it holds
\* none if the process stops between the truncate and the write, every load
\* fails while it holds none, and unless the process stops there the file
\* holds a valid token again when the call ends.
C24_ValidUnlessStopped ==
    [][/\ (blob = "token" /\ blob' # "token") =>
             (pc["c1"] = "loaded" /\ pc'["c1"] = "truncated")
       /\ (pc["c1"] = "truncated" /\ pc'["c1"] = "idle") => blob' = "empty"
       /\ (blob # "token" /\ pc["c1"] = "idle" /\ pc'["c1"] # "idle") =>
             pc'["c1"] = "InvalidToken"
       /\ (pc["c1"] = "truncated" /\ pc'["c1"] \notin {"truncated", "idle"}) =>
             blob' = "token"]_vars

====
